---- MODULE Spec2Model ----
(***************************************************************************)
(* The session layer of pyepics, lib/__init__.py: the PV cache (_Cache),   *)
(* the bounded polling wait for a connection (__createPV), the simple      *)
(* accessors caget / caput / cainfo and the monitor registry (_Monitors)   *)
(* with camonitor / camonitor_clear.                                       *)
(*                                                                         *)
(* A flow of control is a caller of the public functions.  Its position    *)
(* pc is "idle" (between calls), "wait" (in __createPV's polling loop,     *)
(* line 53), "check" (at the test after the loop, line 57) or "done" (the  *)
(* instant the public function returns, its result and effects in ret,     *)
(* out, trace and raised).  The PV objects are the collaborator            *)
(* (lib/pv.py); the network connects and disconnects them and delivers     *)
(* value changes at any moment.                                            *)
(*                                                                         *)
(* Time is counted in ticks of one polling interval (the 1.e-3 s of        *)
(* time.sleep); a sleep takes between 1 and MaxSleep ticks.                *)
(***************************************************************************)
EXTENDS Integers, Sequences, FiniteSets, TLC

\* ---------------------------------------------------------------- bounds
MaxPV == 2           \* PV objects constructed over the process lifetime
MaxSleep == 2        \* ticks the longest time.sleep(1.e-3) takes
MaxCallbacks == 2    \* callbacks attached at any one time, over all PVs
DefaultTimeout == 2  \* __createPV's timeout=5.0, in ticks (scaled down)

\* ------------------------------------------------------ program constants
Precision == 32          \* "%.32s" of the default monitor callback
PutTimeoutDefault == 60  \* caput's timeout=60

None == 0                \* Python's None where a PV (1 .. MaxPV) is expected

\* PV names: one short, one of Precision + 1 characters
ShortName == "xx.VAL"
LongName == "a_long_record_name_of_33_char.VAL"
PVNames == {ShortName, LongName}

\* flows of control; Spec runs the single flow "main" (design section 5)
Procs == {"main", "other"}

Writers == {"None", "w"}        \* camonitor's writer argument
UserCallbacks == {"None", "user"} \* camonitor's callback argument
Values == {"3.0"}                 \* values put
\* caput's wait and timeout arguments: the defaults, and a waiting put
PutArgs == {[wait |-> FALSE, timeout |-> PutTimeoutDefault],
            [wait |-> TRUE, timeout |-> 1]}

VARIABLES
    _Cache,     \* line 42: pvname -> PV
    _Monitors,  \* line 43: pvname -> PV or None
    pvs,        \* the PV objects constructed so far, PV h is pvs[h]
    pc,         \* position of each flow of control
    call,       \* the public call each flow is in (or has last made)
    thispv,     \* the local thispv of that call
    elapsed,    \* time.time() - start_time while the call is in __createPV
    ret,        \* what the call returned
    out,        \* lines the call wrote to sys.stdout
    trace,      \* the collaborator calls the call made, in order
    raised,     \* the exception the call raised, "None" if none
    delivered   \* the value change the collaborator delivered in this step

vars == <<_Cache, _Monitors, pvs, pc, call, thispv, elapsed, ret, out, trace,
          raised, delivered>>

Min(a, b) == IF a < b THEN a ELSE b

\* --------------------------------------------------------- collaborator PV
\* PV(pvname): a fresh, unconnected PV object with no callbacks
PV(pvname) ==
    [pvname |-> pvname, connects |-> 0, connected |-> FALSE, callbacks |-> <<>>]

\* thispv.connect(): non-blocking, initiates the connection
connect(pv) == [pv EXCEPT !.connects = @ + 1]

\* thispv.add_callback(callback): subscribes one more callback
add_callback(pv, callback) == [pv EXCEPT !.callbacks = Append(@, callback)]

\* thispv.clear_callbacks(): unsubscribes every callback
clear_callbacks(pv) == [pv EXCEPT !.callbacks = <<>>]

\* one entry of trace
Called(f, args) == [f |-> f, args |-> args]

\* ------------------------------------------------------------- __createPV
\* the cache is never consulted
InCache_never(cache, pvname) == FALSE

\* a cached PV counts only while it is connected
InCache_connected(cache, pvname) ==
    pvname \in DOMAIN cache /\ pvs[cache[pvname]].connected

\* line 47: pvname in _Cache
InCache(cache, pvname) == pvname \in DOMAIN cache

\* the deadline test off by one
TimedOut_early(el, timeout) == el >= timeout

\* line 55: time.time()-start_time > timeout
TimedOut(el, timeout) == el > timeout

\* the cache keeps the last PV only
SaveCache_replace(cache, pvname, h) == (pvname :> h)

\* a name already cached keeps its PV
SaveCache_keep(cache, pvname, h) == cache @@ (pvname :> h)

\* line 61: _Cache[pvname] = thispv
SaveCache(cache, pvname, h) == (pvname :> h) @@ cache

\* line 58: 'cannot connect to %s\n' % pvname
CannotConnect(pvname) == "cannot connect to " \o pvname \o "\n"

\* -------------------------------------------------------------- camonitor
\* "%.32s" % pvname
Fmt32(s) == SubSeq(s, 1, Min(Len(s), Precision))

\* repr(value)
Repr(value) == "repr(" \o value \o ")"

\* the default callback attached whatever the callback argument is
MakeCallback_default(writer, callback) ==
    [fn |-> "default", writer |-> IF writer = "None" THEN "stdout" ELSE writer]

\* lines 139-146: the callback camonitor attaches
MakeCallback(writer, callback) ==
    IF callback = "None"
    THEN [fn |-> "default", writer |-> IF writer = "None" THEN "stdout" ELSE writer]
    ELSE [fn |-> callback, writer |-> "unused"]

\* lines 142-146: the line the default callback writes
DefaultLine(pvname, value, char_value) ==
    Fmt32(pvname) \o " " \o "fmt_time" \o " "
        \o (IF char_value = "None" THEN Repr(value) ELSE char_value) \o "\n"

\* line 149: _Monitors[pvname] = thispv
SaveMonitor(monitors, pvname, h) == (pvname :> h) @@ monitors

\* ------------------------------------------------------------------- calls
Calls ==
    [op : {"caget"}, pvname : PVNames, as_string : BOOLEAN]
    \cup {[op |-> "caput", pvname |-> n, value |-> v, wait |-> a.wait,
            timeout |-> a.timeout] : n \in PVNames, v \in Values, a \in PutArgs}
    \cup [op : {"cainfo"}, pvname : PVNames, print_out : BOOLEAN]
    \cup [op : {"camonitor"}, pvname : PVNames, writer : Writers,
          callback : UserCallbacks]
    \cup [op : {"camonitor_clear"}, pvname : PVNames]

NoCall == [op |-> "none"]
NoDelivery == [pv |-> None, calls |-> <<>>, writes |-> <<>>]

Init ==
    /\ _Cache = <<>>
    /\ _Monitors = <<>>
    /\ pvs = <<>>
    /\ pc = [p \in Procs |-> "idle"]
    /\ call = [p \in Procs |-> NoCall]
    /\ thispv = [p \in Procs |-> None]
    /\ elapsed = [p \in Procs |-> 0]
    /\ ret = [p \in Procs |-> "None"]
    /\ out = [p \in Procs |-> <<>>]
    /\ trace = [p \in Procs |-> <<>>]
    /\ raised = [p \in Procs |-> "None"]
    /\ delivered = NoDelivery

\* ---------------------------------------------------- the public functions
\* lines 72-74: caput after thispv = __createPV(pvname)
caput(p, c, h, tr, o) ==
    /\ trace' = [trace EXCEPT ![p] =
          IF h # None
          THEN Append(tr, Called("put", <<c.value, c.wait, c.timeout>>))
          ELSE tr]
    /\ ret' = [ret EXCEPT ![p] = IF h # None THEN "put_result" ELSE "None"]
    /\ out' = [out EXCEPT ![p] = o]
    /\ UNCHANGED <<_Monitors, pvs>>

\* caget that returns the raw value whatever as_string is
caget_raw(p, c, h, tr, o) ==
    /\ trace' = [trace EXCEPT ![p] =
          IF h = None THEN tr ELSE Append(tr, Called("get", <<>>))]
    /\ ret' = [ret EXCEPT ![p] = IF h = None THEN "None" ELSE "value"]
    /\ out' = [out EXCEPT ![p] = o]
    /\ UNCHANGED <<_Monitors, pvs>>

\* lines 85-93: caget after thispv = __createPV(pvname)
caget(p, c, h, tr, o) ==
    /\ trace' = [trace EXCEPT ![p] =
          IF h = None THEN tr
          ELSE IF c.as_string
               THEN tr \o <<Called("get", <<>>), Called("get_ctrlvars", <<>>),
                            Called("get_as_string", <<>>)>>
               ELSE Append(tr, Called("get", <<>>))]
    /\ ret' = [ret EXCEPT ![p] =
          IF h = None THEN "None"
          ELSE IF c.as_string THEN "formatted" ELSE "value"]
    /\ out' = [out EXCEPT ![p] = o]
    /\ UNCHANGED <<_Monitors, pvs>>

\* cainfo that prints the report and returns it too
cainfo_both(p, c, h, tr, o) ==
    /\ trace' = [trace EXCEPT ![p] =
          IF h = None THEN tr
          ELSE tr \o <<Called("get", <<>>), Called("get_ctrlvars", <<>>)>>]
    /\ out' = [out EXCEPT ![p] =
          IF h # None THEN Append(o, "info of " \o c.pvname \o "\n") ELSE o]
    /\ ret' = [ret EXCEPT ![p] =
          IF h # None THEN "info of " \o c.pvname ELSE "None"]
    /\ UNCHANGED <<_Monitors, pvs>>

\* lines 106-113: cainfo after thispv = __createPV(pvname)
cainfo(p, c, h, tr, o) ==
    /\ trace' = [trace EXCEPT ![p] =
          IF h = None THEN tr
          ELSE tr \o <<Called("get", <<>>), Called("get_ctrlvars", <<>>)>>]
    /\ out' = [out EXCEPT ![p] =
          IF h # None /\ c.print_out
          THEN Append(o, "info of " \o c.pvname \o "\n") ELSE o]
    /\ ret' = [ret EXCEPT ![p] =
          IF h # None /\ ~c.print_out THEN "info of " \o c.pvname ELSE "None"]
    /\ UNCHANGED <<_Monitors, pvs>>

\* camonitor without the test of line 150
camonitor_unguarded(p, c, h, tr, o) ==
    LET callback == MakeCallback(c.writer, c.callback) IN
    /\ _Monitors' = SaveMonitor(_Monitors, c.pvname, h)
    /\ trace' = [trace EXCEPT ![p] =
          tr \o <<Called("get", <<>>), Called("add_callback", <<callback>>)>>]
    /\ pvs' = IF h = None THEN pvs
              ELSE [pvs EXCEPT ![h] = add_callback(@, callback)]
    /\ ret' = [ret EXCEPT ![p] = "None"]
    /\ out' = [out EXCEPT ![p] = o]

\* lines 139-152: camonitor after thispv = __createPV(pvname)
camonitor(p, c, h, tr, o) ==
    LET callback == MakeCallback(c.writer, c.callback) IN
    /\ _Monitors' = SaveMonitor(_Monitors, c.pvname, h)
    /\ trace' = [trace EXCEPT ![p] =
          IF h = None THEN tr
          ELSE tr \o <<Called("get", <<>>), Called("add_callback", <<callback>>)>>]
    /\ pvs' = IF h = None THEN pvs
              ELSE [pvs EXCEPT ![h] = add_callback(@, callback)]
    /\ ret' = [ret EXCEPT ![p] = "None"]
    /\ out' = [out EXCEPT ![p] = o]

\* the rest of the public function c once __createPV has returned h, having
\* made the collaborator calls tr and written the lines o
Body(p, c, h, tr, o) ==
    \/ c.op = "caput" /\ caput(p, c, h, tr, o)
    \/ c.op = "caget" /\ caget(p, c, h, tr, o)
    \/ c.op = "cainfo" /\ cainfo(p, c, h, tr, o)
    \/ c.op = "camonitor" /\ camonitor(p, c, h, tr, o)

\* callbacks attached over all PVs
RECURSIVE Attached(_)
Attached(ps) ==
    IF ps = <<>> THEN 0 ELSE Len(Head(ps).callbacks) + Attached(Tail(ps))

\* the bounds leave room for the call c
Room(c) ==
    /\ c.op = "camonitor" => Attached(pvs) < MaxCallbacks
    /\ ~InCache(_Cache, c.pvname) => Len(pvs) < MaxPV

\* lines 47-48: the name is cached; the public function c goes on with it
CreatePV_cached(p, c) ==
    /\ pc[p] = "idle"
    /\ c.op # "camonitor_clear"
    /\ Room(c)
    /\ InCache(_Cache, c.pvname)
    /\ call' = [call EXCEPT ![p] = c]
    /\ thispv' = [thispv EXCEPT ![p] = _Cache[c.pvname]]
    /\ Body(p, c, _Cache[c.pvname], <<>>, <<>>)
    /\ pc' = [pc EXCEPT ![p] = "done"]
    /\ delivered' = NoDelivery
    /\ UNCHANGED <<_Cache, elapsed, raised>>

\* lines 50-52: start_time, thispv = PV(pvname), thispv.connect()
CreatePV_new(p, c) ==
    /\ pc[p] = "idle"
    /\ c.op # "camonitor_clear"
    /\ Room(c)
    /\ ~InCache(_Cache, c.pvname)
    /\ call' = [call EXCEPT ![p] = c]
    /\ pvs' = Append(pvs, connect(PV(c.pvname)))
    /\ thispv' = [thispv EXCEPT ![p] = Len(pvs) + 1]
    /\ elapsed' = [elapsed EXCEPT ![p] = 0]
    /\ trace' = [trace EXCEPT ![p] =
          <<Called("PV", <<>>), Called("connect", <<>>)>>]
    /\ pc' = [pc EXCEPT ![p] = "wait"]
    /\ delivered' = NoDelivery
    /\ UNCHANGED <<_Cache, _Monitors, ret, out, raised>>

\* the wait of a caput bounded by caput's own timeout
Wait_put_timeout(p) ==
    /\ pc[p] = "wait"
    /\ \/ /\ pvs[thispv[p]].connected
          /\ pc' = [pc EXCEPT ![p] = "check"]
          /\ UNCHANGED elapsed
       \/ /\ ~pvs[thispv[p]].connected
          /\ \E d \in 1..MaxSleep :
                /\ elapsed' = [elapsed EXCEPT ![p] = @ + d]
                /\ pc' = [pc EXCEPT ![p] =
                      IF TimedOut(elapsed[p] + d,
                                  IF call[p].op = "caput" THEN call[p].timeout
                                  ELSE DefaultTimeout)
                      THEN "check" ELSE "wait"]
    /\ delivered' = NoDelivery
    /\ UNCHANGED <<_Cache, _Monitors, pvs, call, thispv, ret, out, trace,
                   raised>>

\* lines 53-56: one turn of   while not thispv.connected: sleep; if ...: break
Wait(p) ==
    /\ pc[p] = "wait"
    /\ \/ /\ pvs[thispv[p]].connected
          /\ pc' = [pc EXCEPT ![p] = "check"]
          /\ UNCHANGED elapsed
       \/ /\ ~pvs[thispv[p]].connected
          /\ \E d \in 1..MaxSleep :
                /\ elapsed' = [elapsed EXCEPT ![p] = @ + d]
                /\ pc' = [pc EXCEPT ![p] =
                      IF TimedOut(elapsed[p] + d, DefaultTimeout)
                      THEN "check" ELSE "wait"]
    /\ delivered' = NoDelivery
    /\ UNCHANGED <<_Cache, _Monitors, pvs, call, thispv, ret, out, trace,
                   raised>>

\* the PV that timed out is cached all the same
Return_None_cached(p) ==
    /\ pc[p] = "check"
    /\ ~pvs[thispv[p]].connected
    /\ _Cache' = SaveCache(_Cache, call[p].pvname, thispv[p])
    /\ thispv' = [thispv EXCEPT ![p] = None]
    /\ Body(p, call[p], None, trace[p],
            Append(out[p], CannotConnect(call[p].pvname)))
    /\ elapsed' = [elapsed EXCEPT ![p] = 0]
    /\ pc' = [pc EXCEPT ![p] = "done"]
    /\ delivered' = NoDelivery
    /\ UNCHANGED <<call, raised>>

\* a PV that timed out is given up for a new one, which is waited for
Return_None_retry(p) ==
    /\ pc[p] = "check"
    /\ ~pvs[thispv[p]].connected
    /\ IF Len(pvs) < MaxPV
       THEN /\ pvs' = Append(pvs, connect(PV(call[p].pvname)))
            /\ thispv' = [thispv EXCEPT ![p] = Len(pvs) + 1]
            /\ trace' = [trace EXCEPT ![p] =
                  @ \o <<Called("PV", <<>>), Called("connect", <<>>)>>]
            /\ elapsed' = [elapsed EXCEPT ![p] = 0]
            /\ pc' = [pc EXCEPT ![p] = "wait"]
            /\ UNCHANGED <<_Monitors, ret, out>>
       ELSE /\ thispv' = [thispv EXCEPT ![p] = None]
            /\ Body(p, call[p], None, trace[p],
                    Append(out[p], CannotConnect(call[p].pvname)))
            /\ elapsed' = [elapsed EXCEPT ![p] = 0]
            /\ pc' = [pc EXCEPT ![p] = "done"]
    /\ delivered' = NoDelivery
    /\ UNCHANGED <<_Cache, call, raised>>

\* lines 57-59: not connected: the diagnostic, return None
Return_None(p) ==
    /\ pc[p] = "check"
    /\ ~pvs[thispv[p]].connected
    /\ thispv' = [thispv EXCEPT ![p] = None]
    /\ Body(p, call[p], None, trace[p],
            Append(out[p], CannotConnect(call[p].pvname)))
    /\ elapsed' = [elapsed EXCEPT ![p] = 0]
    /\ pc' = [pc EXCEPT ![p] = "done"]
    /\ delivered' = NoDelivery
    /\ UNCHANGED <<_Cache, call, raised>>

\* a PV found connected is given up all the same when the deadline has passed
Return_PV_deadline(p) ==
    /\ pc[p] = "check"
    /\ pvs[thispv[p]].connected
    /\ IF TimedOut(elapsed[p], DefaultTimeout)
       THEN /\ thispv' = [thispv EXCEPT ![p] = None]
            /\ Body(p, call[p], None, trace[p],
                    Append(out[p], CannotConnect(call[p].pvname)))
            /\ UNCHANGED _Cache
       ELSE /\ _Cache' = SaveCache(_Cache, call[p].pvname, thispv[p])
            /\ Body(p, call[p], thispv[p], trace[p], out[p])
            /\ UNCHANGED thispv
    /\ elapsed' = [elapsed EXCEPT ![p] = 0]
    /\ pc' = [pc EXCEPT ![p] = "done"]
    /\ delivered' = NoDelivery
    /\ UNCHANGED <<call, raised>>

\* lines 60-62: connected: save in _Cache, return thispv
Return_PV(p) ==
    /\ pc[p] = "check"
    /\ pvs[thispv[p]].connected
    /\ _Cache' = SaveCache(_Cache, call[p].pvname, thispv[p])
    /\ Body(p, call[p], thispv[p], trace[p], out[p])
    /\ elapsed' = [elapsed EXCEPT ![p] = 0]
    /\ pc' = [pc EXCEPT ![p] = "done"]
    /\ delivered' = NoDelivery
    /\ UNCHANGED <<call, thispv, raised>>

\* camonitor_clear that clears the callbacks of every PV
camonitor_clear_all(p, c) ==
    /\ pc[p] = "idle"
    /\ c.op = "camonitor_clear"
    /\ call' = [call EXCEPT ![p] = c]
    /\ LET pvname == c.pvname IN
       \/ /\ pvname \notin DOMAIN _Monitors
          /\ UNCHANGED <<pvs, trace, raised>>
       \/ /\ pvname \in DOMAIN _Monitors
          /\ _Monitors[pvname] = None
          /\ raised' = [raised EXCEPT ![p] = "AttributeError"]
          /\ UNCHANGED <<pvs, trace>>
       \/ /\ pvname \in DOMAIN _Monitors
          /\ _Monitors[pvname] # None
          /\ pvs' = [h \in 1..Len(pvs) |-> clear_callbacks(pvs[h])]
          /\ trace' = [trace EXCEPT ![p] =
                <<Called("clear_callbacks", <<>>)>>]
          /\ UNCHANGED raised
    /\ pc' = [pc EXCEPT ![p] = "done"]
    /\ delivered' = NoDelivery
    /\ UNCHANGED <<_Cache, _Monitors, thispv, elapsed, ret, out>>

\* lines 115-118: camonitor_clear
camonitor_clear(p, c) ==
    /\ pc[p] = "idle"
    /\ c.op = "camonitor_clear"
    /\ call' = [call EXCEPT ![p] = c]
    /\ LET pvname == c.pvname IN
       \/ /\ pvname \notin DOMAIN _Monitors
          /\ UNCHANGED <<pvs, trace, raised>>
       \/ /\ pvname \in DOMAIN _Monitors
          /\ _Monitors[pvname] = None
          /\ raised' = [raised EXCEPT ![p] = "AttributeError"]
          /\ UNCHANGED <<pvs, trace>>
       \/ /\ pvname \in DOMAIN _Monitors
          /\ _Monitors[pvname] # None
          /\ pvs' = [pvs EXCEPT ![_Monitors[pvname]] = clear_callbacks(@)]
          /\ trace' = [trace EXCEPT ![p] =
                <<Called("clear_callbacks", <<>>)>>]
          /\ UNCHANGED raised
    /\ pc' = [pc EXCEPT ![p] = "done"]
    /\ delivered' = NoDelivery
    /\ UNCHANGED <<_Cache, _Monitors, thispv, elapsed, ret, out>>

\* the caller has the result; the locals of the call are gone
Returned(p) ==
    /\ pc[p] = "done"
    /\ pc' = [pc EXCEPT ![p] = "idle"]
    /\ call' = [call EXCEPT ![p] = NoCall]
    /\ thispv' = [thispv EXCEPT ![p] = None]
    /\ elapsed' = [elapsed EXCEPT ![p] = 0]
    /\ ret' = [ret EXCEPT ![p] = "None"]
    /\ out' = [out EXCEPT ![p] = <<>>]
    /\ trace' = [trace EXCEPT ![p] = <<>>]
    /\ raised' = [raised EXCEPT ![p] = "None"]
    /\ delivered' = NoDelivery
    /\ UNCHANGED <<_Cache, _Monitors, pvs>>

\* ------------------------------------------------------------ the network
\* a PV object still referenced: by a call in progress or by a map
Live(h) ==
    \/ \E p \in Procs : pc[p] \in {"wait", "check"} /\ thispv[p] = h
    \/ \E n \in DOMAIN _Cache : _Cache[n] = h
    \/ \E n \in DOMAIN _Monitors : _Monitors[n] = h

\* a return is one instant: a network event at that instant is the same
\* event just after it
Quiet == \A p \in Procs : pc[p] # "done"

\* the connection of PV h completes
Connect(h) ==
    /\ Quiet
    /\ Live(h)
    /\ pvs[h].connects > 0
    /\ ~pvs[h].connected
    /\ pvs' = [pvs EXCEPT ![h].connected = TRUE]
    /\ delivered' = NoDelivery
    /\ UNCHANGED <<_Cache, _Monitors, pc, call, thispv, elapsed, ret, out,
                   trace, raised>>

\* the connection of PV h is lost
Disconnect(h) ==
    /\ Quiet
    /\ Live(h)
    /\ pvs[h].connected
    /\ pvs' = [pvs EXCEPT ![h].connected = FALSE]
    /\ delivered' = NoDelivery
    /\ UNCHANGED <<_Cache, _Monitors, pc, call, thispv, elapsed, ret, out,
                   trace, raised>>

\* what the default callbacks among cbs write for one value change
Writes(cbs, pvname, value, char_value) ==
    LET defaults == SelectSeq(cbs, LAMBDA cb : cb.fn = "default") IN
    [i \in 1..Len(defaults) |->
        [writer |-> defaults[i].writer,
         line |-> DefaultLine(pvname, value, char_value)]]

\* the collaborator delivers a value change of PV h to each of its callbacks
Deliver(h, value, char_value) ==
    /\ Quiet
    /\ pvs[h].connected
    /\ delivered' =
          [pv |-> h, calls |-> pvs[h].callbacks,
           writes |-> Writes(pvs[h].callbacks, pvs[h].pvname, value, char_value)]
    /\ UNCHANGED <<_Cache, _Monitors, pvs, pc, call, thispv, elapsed, ret, out,
                   trace, raised>>

CharValues == {"None", "3.000"}
DeliveredValues == {"3.0"}

Network ==
    \E h \in 1..Len(pvs) :
        \/ Connect(h)
        \/ Disconnect(h)
        \/ \E v \in DeliveredValues, cv \in CharValues : Deliver(h, v, cv)

Step(p) ==
    \/ \E c \in Calls : CreatePV_cached(p, c)
    \/ \E c \in Calls : CreatePV_new(p, c)
    \/ Wait(p)
    \/ Return_None(p)
    \/ Return_PV(p)
    \/ \E c \in Calls : camonitor_clear(p, c)
    \/ Returned(p)

\* one flow of control (section 5 of the design: a single logical flow)
Next == Step("main") \/ Network

Spec == Init /\ [][Next]_vars

\* --------------------------------------------------------- two flows
\* the calls of two flows that use the session layer at once, with no lock
\* around it: each reads a PV by name
ConcCalls == {c \in Calls : c.op = "caget"}

\* a step of the flow p: the call of caget, and __createPV statement by
\* statement
Resolve(p) ==
    \/ \E c \in ConcCalls : CreatePV_cached(p, c)
    \/ \E c \in ConcCalls : CreatePV_new(p, c)
    \/ Wait(p)
    \/ Return_None(p)
    \/ Return_PV(p)
    \/ Returned(p)

NextConc == (\E p \in Procs : Resolve(p)) \/ Network

SpecConc == Init /\ [][NextConc]_vars

\* ------------------------------------------------------------------ claims
\* connect() calls made for PVs of the name n
RECURSIVE ConnectsIn(_, _)
ConnectsIn(ps, n) ==
    IF ps = <<>> THEN 0
    ELSE (IF Head(ps).pvname = n THEN Head(ps).connects ELSE 0)
         + ConnectsIn(Tail(ps), n)

Resolving == {"caget", "caput", "cainfo", "camonitor"}

\* C1: within a single flow of control, a name's _Cache entry, once bound, is
\* never replaced and never removed, and every resolution that returns a PV
\* returns the one _Cache holds for the name.
C1_CacheBoundOnce ==
    /\ [][\A n \in DOMAIN _Cache :
             n \in DOMAIN _Cache' /\ _Cache'[n] = _Cache[n]]_vars
    /\ [](pc["main"] = "done" /\ call["main"].op \in Resolving
            /\ thispv["main"] # None
          => /\ call["main"].pvname \in DOMAIN _Cache
             /\ _Cache[call["main"].pvname] = thispv["main"])

\* C1 witness: a later resolution of a cached name returned the cached PV
\* while the other name was cached too
C1_Witness ==
    /\ pc["main"] = "done"
    /\ call["main"].op = "caget"
    /\ Head(trace["main"]).f = "get"
    /\ thispv["main"] = _Cache[call["main"].pvname]
    /\ DOMAIN _Cache = PVNames

\* C2 as claimed: at most one connect attempt per name, ever
C2_OneConnectPerName == \A n \in PVNames : ConnectsIn(pvs, n) <= 1

\* C2 amended: every PV constructed is connected exactly once, one PV at most
\* is constructed per call, and no connect attempt is issued for a name that
\* is cached: a name sees one attempt per resolution that finds it uncached.
C2_OneConnectPerUncachedResolution ==
    /\ [](\A h \in 1..Len(pvs) : pvs[h].connects = 1)
    /\ [][/\ Len(pvs') <= Len(pvs) + 1
          /\ \A n \in DOMAIN _Cache : ConnectsIn(pvs', n) = ConnectsIn(pvs, n)]_vars

\* C2 witness: a name connected at the second attempt, and cached
C2_Witness ==
    \E n \in DOMAIN _Cache : ConnectsIn(pvs, n) = 2 /\ pvs[_Cache[n]].connects = 1

\* C3: __createPV never blocks: while it waits a step of it is always
\* possible, every poll that stays in the loop takes time, and the loop is
\* left on the deadline at the first poll at which the elapsed time exceeds
\* the timeout, so no later than the timeout plus one sleep; a PV found not
\* connected by the test after the loop makes __createPV return None.
C3_TimeoutBound ==
    /\ [](pc["main"] \in {"wait", "check"} => ENABLED Step("main"))
    /\ [](pc["main"] = "wait" => elapsed["main"] <= DefaultTimeout)
    /\ [](pc["main"] = "check"
            => elapsed["main"] <= DefaultTimeout + MaxSleep)
    /\ [][Wait("main") /\ pc'["main"] = "wait"
          => elapsed'["main"] > elapsed["main"]]_vars
    /\ [][pc["main"] = "wait" /\ pc'["main"] = "check"
            /\ ~pvs[thispv["main"]].connected
          => /\ elapsed["main"] <= DefaultTimeout
             /\ elapsed'["main"] > DefaultTimeout]_vars
    /\ [][pc["main"] = "check" /\ pc'["main"] = "done"
            /\ ~pvs[thispv["main"]].connected
          => thispv'["main"] = None /\ ret'["main"] = "None"]_vars

\* C3 witness: the loop was left at the latest possible poll, the PV still
\* not connected
C3_Witness ==
    /\ pc["main"] = "check"
    /\ elapsed["main"] = DefaultTimeout + MaxSleep
    /\ ~pvs[thispv["main"]].connected

\* the collaborator calls made on a PV
OnPV == {"get", "get_as_string", "get_ctrlvars", "put", "add_callback",
         "clear_callbacks"}

\* C4: a __createPV that found the name uncached leaves _Cache untouched until
\* its last test; there the name is in _Cache, mapped to the PV returned, if
\* and only if a PV is returned, and a None return leaves _Cache unchanged.
C4_CachedIffResolved ==
    /\ [](pc["main"] \in {"wait", "check"}
            => call["main"].pvname \notin DOMAIN _Cache)
    /\ [][pc'["main"] \in {"wait", "check"} => _Cache' = _Cache]_vars
    /\ [][pc["main"] = "check" /\ pc'["main"] = "done"
          => LET n == call["main"].pvname IN
             /\ thispv'["main"] # None <=> n \in DOMAIN _Cache'
             /\ thispv'["main"] # None => _Cache'[n] = thispv'["main"]
             /\ thispv'["main"] = None => _Cache' = _Cache]_vars

\* C4 witness: a resolution timed out, its name is not cached, the other is
C4_Witness ==
    /\ pc["main"] = "done"
    /\ call["main"].op = "caget"
    /\ out["main"] = <<CannotConnect(call["main"].pvname)>>
    /\ thispv["main"] = None
    /\ DOMAIN _Cache = PVNames \ {call["main"].pvname}

\* C5: a caget, caput, cainfo or camonitor whose PV is not connected at the
\* test after the wait returns None, raises nothing, writes the one line
\* 'cannot connect to <name>' and calls nothing on the PV.
C5_UnreachableReturnsNone ==
    [][pc["main"] = "check" /\ pc'["main"] = "done"
         /\ ~pvs[thispv["main"]].connected
       => /\ call'["main"] = call["main"]
          /\ call["main"].op \in Resolving
          /\ ret'["main"] = "None"
          /\ raised'["main"] = "None"
          /\ out'["main"] = <<CannotConnect(call["main"].pvname)>>
          /\ \A i \in 1..Len(trace'["main"]) : trace'["main"][i].f \notin OnPV
          /\ \A h \in 1..Len(pvs) : pvs'[h].callbacks = pvs[h].callbacks]_vars

\* C5 witness: a camonitor on an unreachable name has returned
C5_Witness ==
    /\ pc["main"] = "done"
    /\ call["main"].op = "camonitor"
    /\ ret["main"] = "None"
    /\ out["main"] = <<CannotConnect(call["main"].pvname)>>
    /\ call["main"].pvname \in DOMAIN _Monitors

\* C6 as claimed: camonitor_clear never raises
C6_ClearNeverRaises == \A p \in Procs : raised[p] = "None"

\* the name is under a monitor set by camonitor and not cleared since; the
\* callback of its last camonitor
Monitoring(n) ==
    /\ n \in DOMAIN _Monitors
    /\ _Monitors[n] # None
    /\ pvs[_Monitors[n]].callbacks # <<>>

LastCallback(n) ==
    pvs[_Monitors[n]].callbacks[Len(pvs[_Monitors[n]].callbacks)]

\* C7 as claimed: a value change delivered for a name whose last camonitor
\* took the default callback makes exactly one write; one delivered after
\* camonitor_clear makes none.
C7_MonitorLifecycle ==
    \A n \in DOMAIN _Monitors :
        delivered.pv # None /\ delivered.pv = _Monitors[n]
        => /\ Monitoring(n) /\ LastCallback(n).fn = "default"
              => Len(delivered.writes) = 1
           /\ ~Monitoring(n) => Len(delivered.writes) = 0

\* C8 as claimed: a monitored name's PV has exactly one callback attached, the
\* one of the last camonitor, and a delivered change invokes that one only.
C8_OneCallbackPerName ==
    \A n \in DOMAIN _Monitors :
        Monitoring(n)
        => /\ Len(pvs[_Monitors[n]].callbacks) = 1
           /\ delivered.pv = _Monitors[n]
              => delivered.calls = <<LastCallback(n)>>

\* C9 as claimed: every key of _Monitors is a key of _Cache, and both map it
\* to the same PV
C9_MonitorsWithinCache ==
    \A n \in DOMAIN _Monitors :
        /\ n \in DOMAIN _Cache
        /\ _Monitors[n] \in 1..Len(pvs)
        /\ _Monitors[n] = _Cache[n]

\* C10: a call on a cached name returns at once with the cached PV, whether
\* or not that PV is still connected: no PV is constructed, none is
\* connected, nothing is waited for, no diagnostic is written, and the
\* public function goes on to its get or put.
C10_CachedIsTrusted ==
    [][pc["main"] = "idle" /\ pc'["main"] # "idle"
         /\ call'["main"].op \in Resolving
         /\ call'["main"].pvname \in DOMAIN _Cache
       => LET n == call'["main"].pvname IN
          /\ pc'["main"] = "done"
          /\ thispv'["main"] = _Cache[n]
          /\ _Cache' = _Cache
          /\ Len(pvs') = Len(pvs)
          /\ \A h \in 1..Len(pvs) :
                /\ pvs'[h].connects = pvs[h].connects
                /\ pvs'[h].connected = pvs[h].connected
          /\ elapsed'["main"] = 0
          /\ \A i \in 1..Len(out'["main"]) : out'["main"][i] # CannotConnect(n)
          /\ Head(trace'["main"]).f =
                (IF call'["main"].op = "caput" THEN "put" ELSE "get")]_vars

\* C10 witness: a caput went through to the put of a cached PV that had lost
\* its connection
C10_Witness ==
    /\ pc["main"] = "done"
    /\ call["main"].op = "caput"
    /\ thispv["main"] # None
    /\ ~pvs[thispv["main"]].connected
    /\ trace["main"] = <<Called("put", <<call["main"].value, call["main"].wait,
                                        call["main"].timeout>>)>>
    /\ ret["main"] = "put_result"

\* the calls a flow's public call has made on its PV, in order
PVCalls(p) == SelectSeq(trace[p], LAMBDA e : e.f \in OnPV)

\* C11: a caget that resolved its name made, without as_string, the one call
\* get() and returned its value, with no get_ctrlvars(); with as_string it
\* made get(), get_ctrlvars() and get(as_string=True), once each and in that
\* order, and returned the result of the last.
C11_CagetFetches ==
    pc["main"] = "done" /\ call["main"].op = "caget" /\ thispv["main"] # None
    => IF call["main"].as_string
       THEN /\ PVCalls("main") = <<Called("get", <<>>),
                                   Called("get_ctrlvars", <<>>),
                                   Called("get_as_string", <<>>)>>
            /\ ret["main"] = "formatted"
       ELSE /\ PVCalls("main") = <<Called("get", <<>>)>>
            /\ ret["main"] = "value"

\* C11 witness: a caget with as_string returned the formatted value of a PV
\* it had just connected
C11_Witness ==
    /\ pc["main"] = "done"
    /\ call["main"].op = "caget"
    /\ call["main"].as_string
    /\ thispv["main"] # None
    /\ Head(trace["main"]).f = "PV"
    /\ ret["main"] = "formatted"

\* thispv.info of the PV of the name n
Info(n) == "info of " \o n

C13_CaputForwards ==
    /\ [](call["main"].op = "caput" /\ pc["main"] = "wait"
            => elapsed["main"] <= DefaultTimeout)
    /\ [][call["main"].op = "caput" /\ Wait("main")
            /\ ~pvs[thispv["main"]].connected
          => (pc'["main"] = "wait" <=> elapsed'["main"] <= DefaultTimeout)]_vars
    /\ [](pc["main"] = "done" /\ call["main"].op = "caput"
            /\ thispv["main"] # None
          => /\ PVCalls("main") =
                   <<Called("put", <<call["main"].value, call["main"].wait,
                                     call["main"].timeout>>)>>
             /\ ret["main"] = "put_result")

\* C13 witness: a caput with a timeout shorter than the default connection
\* timeout connected its PV and put the value with that timeout
C13_Witness ==
    /\ pc["main"] = "done"
    /\ call["main"].op = "caput"
    /\ call["main"].timeout < DefaultTimeout
    /\ trace["main"] = <<Called("PV", <<>>), Called("connect", <<>>),
                         Called("put", <<call["main"].value, TRUE,
                                         call["main"].timeout>>)>>
    /\ ret["main"] = "put_result"

\* how many of the calls in tr are calls of f
RECURSIVE CountCalls(_, _)
CountCalls(tr, f) ==
    IF tr = <<>> THEN 0
    ELSE (IF Head(tr).f = f THEN 1 ELSE 0) + CountCalls(Tail(tr), f)

\* C14: no retry.  A call that finds its name uncached constructs one PV and
\* calls connect() on it once, at its start, and constructs and connects
\* nothing more until it returns; a PV found not connected ends the call
\* with the one line 'cannot connect to <name>'.  A later call on the name,
\* still uncached, starts over with a fresh PV (constructed, connect() called
\* once), and when that PV is found connected the name is cached with it.
C14_NoRetry ==
    /\ [](pc["main"] \in {"wait", "check"}
            => /\ trace["main"] = <<Called("PV", <<>>), Called("connect", <<>>)>>
               /\ pvs[thispv["main"]].connects = 1)
    /\ [][pc["main"] # "idle"
          => /\ Len(pvs') = Len(pvs)
             /\ \A h \in 1..Len(pvs) : pvs'[h].connects = pvs[h].connects]_vars
    /\ [][pc["main"] = "check" /\ pc'["main"] # "check"
          => /\ pc'["main"] = "done"
             /\ CountCalls(trace'["main"], "PV") = 1
             /\ CountCalls(trace'["main"], "connect") = 1
             /\ IF pvs[thispv["main"]].connected
                THEN /\ thispv'["main"] = thispv["main"]
                     /\ _Cache'[call["main"].pvname] = thispv["main"]
                     /\ \A i \in 1..Len(out'["main"]) :
                           out'["main"][i] # CannotConnect(call["main"].pvname)
                ELSE /\ thispv'["main"] = None
                     /\ out'["main"] =
                           <<CannotConnect(call["main"].pvname)>>]_vars
    /\ [][pc["main"] = "idle" /\ pc'["main"] # "idle"
            /\ call'["main"].op \in Resolving
            /\ call'["main"].pvname \notin DOMAIN _Cache
          => /\ pc'["main"] = "wait"
             /\ pvs' = Append(pvs, [pvname |-> call'["main"].pvname,
                                    connects |-> 1, connected |-> FALSE,
                                    callbacks |-> <<>>])
             /\ thispv'["main"] = Len(pvs')]_vars

\* C14 witness: the second call on a name whose first PV had timed out
\* connected a new PV, and the name is cached with it
C14_Witness ==
    /\ pc["main"] = "done"
    /\ Len(pvs) = 2
    /\ pvs[1].pvname = call["main"].pvname
    /\ pvs[2].pvname = call["main"].pvname
    /\ thispv["main"] = 2
    /\ CountCalls(trace["main"], "connect") = 1
    /\ call["main"].pvname \in DOMAIN _Cache
    /\ _Cache[call["main"].pvname] = 2

\* C15: camonitor_clear of a name that is not in _Monitors does nothing at
\* all: _Cache, _Monitors and every PV with its callbacks are as before,
\* nothing is written, nothing is raised, no PV is called.  For a name that
\* _Monitors maps to a PV it clears the callbacks of that PV and changes
\* nothing else: both maps, the name's key in _Monitors included, and every
\* other PV are as before.
C15_ClearFrame ==
    [][pc["main"] = "idle" /\ pc'["main"] # "idle"
         /\ call'["main"].op = "camonitor_clear"
       => LET n == call'["main"].pvname IN
          /\ _Cache' = _Cache
          /\ _Monitors' = _Monitors
          /\ out'["main"] = <<>>
          /\ delivered'.writes = <<>>
          /\ n \notin DOMAIN _Monitors
             => /\ pvs' = pvs
                /\ trace'["main"] = <<>>
                /\ raised'["main"] = "None"
          /\ n \in DOMAIN _Monitors /\ _Monitors[n] # None
             => /\ pvs' = [pvs EXCEPT ![_Monitors[n]].callbacks = <<>>]
                /\ trace'["main"] = <<Called("clear_callbacks", <<>>)>>
                /\ raised'["main"] = "None"]_vars

\* C15 witness: the monitor of one name was cleared while the other name
\* kept its callback, both names still in _Monitors
C15_Witness ==
    /\ pc["main"] = "done"
    /\ call["main"].op = "camonitor_clear"
    /\ DOMAIN _Monitors = PVNames
    /\ \A n \in PVNames : _Monitors[n] # None
    /\ \A n \in PVNames :
          (pvs[_Monitors[n]].callbacks = <<>>) <=> (n = call["main"].pvname)

\* C16 as claimed (the docstring of cainfo, lines 103-104): with
\* print_out=False the status report is printed and not returned
C16_DocstringPrintOutFalse ==
    pc["main"] = "done" /\ call["main"].op = "cainfo" /\ thispv["main"] # None
        /\ ~call["main"].print_out
    => /\ out["main"] = <<Info(call["main"].pvname) \o "\n">>
       /\ ret["main"] = "None"

\* C17: a camonitor that resolved its name made on its PV the call get() and
\* then the call add_callback(callback), once each and in that order, and the
\* PV has that one callback more.  The callback is the caller's when one was
\* given, and then no change delivered to it writes anything; else it is
\* the default callback, which writes its one line with the writer given, or
\* with sys.stdout.write when the writer is None.
C17_PrimeThenAttach ==
    [][pc["main"] # "done" /\ pc'["main"] = "done"
         /\ call'["main"].op = "camonitor" /\ thispv'["main"] # None
       => LET c == call'["main"]
              h == thispv'["main"]
              cb == pvs'[h].callbacks[Len(pvs'[h].callbacks)]
          IN  /\ PVCalls("main")' =
                    <<Called("get", <<>>), Called("add_callback", <<cb>>)>>
              /\ pvs' = [pvs EXCEPT ![h].callbacks = Append(@, cb)]
              /\ IF c.callback # "None"
                 THEN /\ cb.fn = c.callback
                      /\ \A v \in DeliveredValues, cv \in CharValues :
                            Writes(<<cb>>, c.pvname, v, cv) = <<>>
                 ELSE /\ cb.fn = "default"
                      /\ cb.writer =
                            (IF c.writer = "None" THEN "stdout" ELSE c.writer)
                      /\ \A v \in DeliveredValues, cv \in CharValues :
                            /\ Len(Writes(<<cb>>, c.pvname, v, cv)) = 1
                            /\ Writes(<<cb>>, c.pvname, v, cv)[1].writer
                                  = cb.writer]_vars

\* C17 witness: a camonitor given both a writer and a callback attached the
\* caller's callback to the PV it had just connected
C17_Witness ==
    /\ pc["main"] = "done"
    /\ call["main"].op = "camonitor"
    /\ call["main"].writer = "w"
    /\ call["main"].callback = "user"
    /\ thispv["main"] # None
    /\ Head(trace["main"]).f = "PV"
    /\ Len(pvs[thispv["main"]].callbacks) = 1
    /\ pvs[thispv["main"]].callbacks[1].fn = "user"

\* C18: what __createPV returns is decided by thispv.connected at the test
\* after the loop, whichever way the loop was left.  Found connected there,
\* the PV is cached and returned and no diagnostic is written, even when the
\* loop was left on the deadline; found not connected, None is returned with
\* the diagnostic and _Cache is left alone, even when the loop was left
\* because the PV was connected.  _Cache changes only there, by the PV found
\* connected, and a call returns None from nowhere else.
C18_FinalCheckDecides ==
    /\ [][pc["main"] = "check" /\ pc'["main"] = "done"
          => LET h == thispv["main"]
                 n == call["main"].pvname
             IN  IF pvs[h].connected
                 THEN /\ thispv'["main"] = h
                      /\ _Cache' = (n :> h) @@ _Cache
                      /\ \A i \in 1..Len(out'["main"]) :
                            out'["main"][i] # CannotConnect(n)
                 ELSE /\ thispv'["main"] = None
                      /\ _Cache' = _Cache
                      /\ out'["main"] = <<CannotConnect(n)>>]_vars
    /\ [][_Cache' # _Cache
          => /\ pc["main"] = "check"
             /\ pvs[thispv["main"]].connected
             /\ _Cache' = (call["main"].pvname :> thispv["main"]) @@ _Cache]_vars
    /\ [][pc["main"] # "done" /\ pc'["main"] = "done"
            /\ call'["main"].op \in Resolving /\ thispv'["main"] = None
          => pc["main"] = "check" /\ ~pvs[thispv["main"]].connected]_vars

\* C18 witness: the loop was left on the deadline and the PV connected before
\* the test after the loop
C18_Witness ==
    /\ pc["main"] = "check"
    /\ TimedOut(elapsed["main"], DefaultTimeout)
    /\ pvs[thispv["main"]].connected
    /\ ENABLED Return_PV("main")

\* the flow p is in __createPV with a PV of its own making
Creating(p) == pc[p] \in {"wait", "check"}

\* C19 as claimed: two flows that resolve the same name at once share one PV:
\* whatever PVs they hold for that name are the same PV
C19_ConcurrentResolveOnce ==
    \A p, q \in Procs :
        /\ pc[p] # "idle" /\ pc[q] # "idle"
        /\ call[p].pvname = call[q].pvname
        /\ thispv[p] # None /\ thispv[q] # None
        => thispv[p] = thispv[q]

\* C19 amended: with no lock, every flow that finds the name uncached
\* constructs and connects a PV of its own, also while another flow is
\* waiting for its PV of the same name; two flows in __createPV never share
\* a PV; each flow that finds its PV connected returns that PV and binds
\* the name to it in _Cache, replacing whatever another flow had bound; only
\* a flow that finds the name cached takes the cached PV and constructs none.
C19_EachFlowItsOwnPV ==
    /\ [](\A p, q \in Procs :
            p # q /\ Creating(p) /\ Creating(q) => thispv[p] # thispv[q])
    /\ [][\A p \in Procs :
            pc[p] = "idle" /\ pc'[p] # "idle" /\ call'[p].op \in Resolving
            => IF call'[p].pvname \in DOMAIN _Cache
               THEN /\ thispv'[p] = _Cache[call'[p].pvname]
                    /\ pvs' = pvs
               ELSE /\ pvs' = Append(pvs, [pvname |-> call'[p].pvname,
                                           connects |-> 1, connected |-> FALSE,
                                           callbacks |-> <<>>])
                    /\ thispv'[p] = Len(pvs')]_vars
    /\ [][\A p \in Procs :
            pc[p] = "check" /\ pc'[p] = "done" /\ pvs[thispv[p]].connected
            => /\ thispv'[p] = thispv[p]
               /\ _Cache' = (call[p].pvname :> thispv[p]) @@ _Cache]_vars

\* C19 witness: two flows have resolved the same name at once and returned,
\* each with its own connected PV; _Cache holds the PV of one of them
C19_Witness ==
    /\ pc["main"] = "done" /\ pc["other"] = "done"
    /\ call["main"].pvname = call["other"].pvname
    /\ thispv["main"] # None /\ thispv["other"] # None
    /\ thispv["main"] # thispv["other"]
    /\ pvs[thispv["main"]].connected /\ pvs[thispv["other"]].connected
    /\ pvs[thispv["main"]].connects = 1 /\ pvs[thispv["other"]].connects = 1
    /\ _Cache[call["main"].pvname] = thispv["other"]

\* the string t occurs in the string s
Contains(s, t) ==
    \E i \in 1..(Len(s) - Len(t) + 1) : SubSeq(s, i, i + Len(t) - 1) = t

\* the line written for a delivered change has the value in it: the
\* char_value when there is one, else repr(value)
HasValue(line) ==
    \E v \in DeliveredValues, cv \in CharValues :
        Contains(line, IF cv = "None" THEN Repr(v) ELSE cv)

\* C20 as claimed: every line a default callback writes for a delivered
\* change contains the whole name of the PV, however long, and the value
C20_LineHasNameAndValue ==
    delivered.pv # None
    => \A i \in 1..Len(delivered.writes) :
          /\ Contains(delivered.writes[i].line, pvs[delivered.pv].pvname)
          /\ HasValue(delivered.writes[i].line)

====
